---- MODULE Spec2Model ----
(***************************************************************************)
(* A model of jsdomutils: the tree searches, the class-backed option, the  *)
(* typed dataset accessors and the style accessors of DomUtils and         *)
(* ComputeSize.                                                            *)
(*                                                                         *)
(* Every operation is one action that runs the whole function and records  *)
(* what it was called with and how it ended in `call`.  Strings the code   *)
(* inspects or converts character by character (style names, dataset keys, *)
(* dataset values) are sequences of one-character strings; class names and *)
(* tag names, which the code only compares, are plain strings.             *)
(***************************************************************************)
EXTENDS Integers, Sequences, FiniteSets, TLC

VARIABLES dom, classList, style, dataset, call

vars == <<dom, classList, style, dataset, call>>

(***************************************************************************)
(* Bounds of the model                                                     *)
(***************************************************************************)
MaxNodes == 4

MaxOptions == 3

(***************************************************************************)
(* JavaScript values                                                       *)
(***************************************************************************)
\* null, as parentNode and previousSibling give it
Null == 0

\* undefined where a node is expected: an omitted topElement, a search that
\* falls off the end of its loop
Undefined == -1

\* the TypeError of reading a property of null
TypeError == -2

\* undefined where a class name or a tag name is expected
undefined == "undefined"

ELEMENT_NODE == 1

TEXT_NODE == 3

(***************************************************************************)
(* The DOM tree.  The searches read only parentNode and previousSibling,   *)
(* so from a start node they reach only its ancestors and the siblings     *)
(* before it or before an ancestor.  dom is a part of the document that    *)
(* holds all of these: a node's parent has a smaller number than the node, *)
(* siblings are ordered by their numbers, and the start node of a search   *)
(* is the last node.                                                       *)
(***************************************************************************)
Nodes == DOMAIN dom

\* the class lists of the DIV elements
ClassSets == {{"x"}, {"x", "y"}}

TextNode == [nodeType |-> TEXT_NODE, tagName |-> undefined, classList |-> {}]

BodyElement == [nodeType |-> ELEMENT_NODE, tagName |-> "BODY", classList |-> {}]

DivElements ==
    { [nodeType |-> ELEMENT_NODE, tagName |-> "DIV", classList |-> c] :
        c \in ClassSets }

NodeValues == {TextNode, BodyElement} \cup DivElements

ParentMaps(size) ==
    { p \in [1..size -> 0..size] :
        /\ p[1] = Null
        /\ \A n \in 2..size : p[n] \in 1..(n - 1) }

\* the tree with parent map p and node values v
Dom(size, p, v) ==
    [n \in 1..size |->
        [parentNode |-> p[n], nodeType |-> v[n].nodeType,
         tagName |-> v[n].tagName, classList |-> v[n].classList]]

parentNode(n) == dom[n].parentNode

previousSibling(n) ==
    LET before == { m \in Nodes : m < n /\ dom[n].parentNode # Null
                                   /\ dom[m].parentNode = dom[n].parentNode }
    IN  IF before = {} THEN Null
        ELSE CHOOSE m \in before : \A k \in before : k <= m

nodeType(n) == dom[n].nodeType

tagName(n) == dom[n].tagName

(***************************************************************************)
(* DomUtils: class tests                                                   *)
(***************************************************************************)
containsClassName(list, className) == className \in list

\* a test that is content with one of the names
containsSomeClassName(list, classNames) ==
    \E i \in 1..Len(classNames) : classNames[i] \in list

containsAllClassNames(list, classNames) ==
    \A i \in 1..Len(classNames) : classNames[i] \in list

\* a test that takes a node having the class name or the tag name when
\* both are given
matchesEither(element, className, tagName_) ==
    /\ nodeType(element) = ELEMENT_NODE
    /\ \/ className # undefined
          /\ containsClassName(dom[element].classList, className)
       \/ tagName_ # undefined /\ tagName(element) = tagName_

\* the if / else-if chain the three single-predicate searches share
matches(element, className, tagName_) ==
    IF nodeType(element) = ELEMENT_NODE
    THEN IF className # undefined /\ tagName_ # undefined
         THEN containsClassName(dom[element].classList, className)
              /\ tagName(element) = tagName_
         ELSE IF className # undefined
         THEN containsClassName(dom[element].classList, className)
         ELSE IF tagName_ # undefined
         THEN tagName(element) = tagName_
         ELSE FALSE
    ELSE FALSE

\* the condition of every search's while loop
inLoop(element, topElement) ==
    /\ element # Null
    /\ element # topElement
    /\ tagName(element) # "BODY"

(***************************************************************************)
(* DomUtils: tree searches.  Each returns a node, Undefined, or TypeError  *)
(* when the loop body reads a property of null.                            *)
(***************************************************************************)
RECURSIVE findElementAndParentLoop(_, _, _, _)
findElementAndParentLoop(element, className, tagName_, topElement) ==
    IF inLoop(element, topElement)
    THEN IF matches(element, className, tagName_)
         THEN element
         ELSE findElementAndParentLoop(parentNode(element), className,
                                       tagName_, topElement)
    ELSE Undefined

\* a search that steps to the parent before it tests
findElementAndParentFromParent(node, className, tagName_, topElement) ==
    IF inLoop(node, topElement)
    THEN findElementAndParentLoop(parentNode(node), className, tagName_,
                                  topElement)
    ELSE Undefined

findElementAndParent(node, className, tagName_, topElement) ==
    findElementAndParentLoop(node, className, tagName_, topElement)

RECURSIVE findParentElementLoop(_, _, _, _)
findParentElementLoop(element, className, tagName_, topElement) ==
    IF inLoop(element, topElement)
    THEN LET next == parentNode(element)
         IN  IF next = Null THEN TypeError
             ELSE IF matches(next, className, tagName_) THEN next
             ELSE findParentElementLoop(next, className, tagName_, topElement)
    ELSE Undefined

findParentElement(node, className, tagName_, topElement) ==
    findParentElementLoop(node, className, tagName_, topElement)

\* the step of the previous-sibling searches: the previous sibling, or the
\* parent when there is none
previousOrParent(element) ==
    IF previousSibling(element) = Null
    THEN parentNode(element)
    ELSE previousSibling(element)

RECURSIVE findPreviousElementAndParentLoop(_, _, _, _)
findPreviousElementAndParentLoop(element, className, tagName_, topElement) ==
    IF inLoop(element, topElement)
    THEN LET next == previousOrParent(element)
         IN  IF next = Null THEN TypeError
             ELSE IF matches(next, className, tagName_) THEN next
             ELSE findPreviousElementAndParentLoop(next, className, tagName_,
                                                   topElement)
    ELSE Undefined

findPreviousElementAndParent(node, className, tagName_, topElement) ==
    findPreviousElementAndParentLoop(node, className, tagName_, topElement)

RECURSIVE findPreviousElementAndParentByClassNamesLoop(_, _, _)
findPreviousElementAndParentByClassNamesLoop(element, classNames, topElement) ==
    IF inLoop(element, topElement)
    THEN LET next == previousOrParent(element)
         IN  IF next = Null THEN TypeError
             ELSE IF /\ nodeType(next) = ELEMENT_NODE
                     /\ containsAllClassNames(dom[next].classList, classNames)
             THEN next
             ELSE findPreviousElementAndParentByClassNamesLoop(next, classNames,
                                                               topElement)
    ELSE Undefined

findPreviousElementAndParentByClassNames(node, classNames, topElement) ==
    findPreviousElementAndParentByClassNamesLoop(node, classNames, topElement)

(***************************************************************************)
(* The calls of the tree searches                                          *)
(***************************************************************************)
\* class-name and tag-name arguments: each given or omitted
ClassNameArgs == {undefined, "y"}

TagNameArgs == {undefined, "DIV", "BODY"}

ClassNamesArgs == {<<"x">>, <<"x", "y">>}

TopElementArgs == {Undefined} \cup Nodes

\* the start node: the last node of dom
StartNode == Len(dom)

NoCall == [op |-> "none"]

SearchCall(op, node, className, tagName_, classNames, topElement, result) ==
    [op |-> op, node |-> node, className |-> className, tagName |-> tagName_,
     classNames |-> classNames, topElement |-> topElement, result |-> result]

CallFindElementAndParent ==
    /\ call = NoCall
    /\ \E className \in ClassNameArgs, tagName_ \in TagNameArgs,
          topElement \in TopElementArgs :
        LET node == StartNode IN
        /\ call' = SearchCall("findElementAndParent", node, className, tagName_,
                              <<>>, topElement,
                              findElementAndParent(node, className, tagName_,
                                                   topElement))
        /\ UNCHANGED <<dom, classList, style, dataset>>

CallFindParentElement ==
    /\ call = NoCall
    /\ \E className \in ClassNameArgs, tagName_ \in TagNameArgs,
          topElement \in TopElementArgs :
        LET node == StartNode IN
        /\ call' = SearchCall("findParentElement", node, className, tagName_,
                              <<>>, topElement,
                              findParentElement(node, className, tagName_,
                                                topElement))
        /\ UNCHANGED <<dom, classList, style, dataset>>

CallFindPreviousElementAndParent ==
    /\ call = NoCall
    /\ \E className \in ClassNameArgs, tagName_ \in TagNameArgs,
          topElement \in TopElementArgs :
        LET node == StartNode IN
        /\ call' = SearchCall("findPreviousElementAndParent", node, className,
                              tagName_, <<>>, topElement,
                              findPreviousElementAndParent(node, className,
                                                           tagName_, topElement))
        /\ UNCHANGED <<dom, classList, style, dataset>>

CallFindPreviousElementAndParentByClassNames ==
    /\ call = NoCall
    /\ \E classNames \in ClassNamesArgs, topElement \in TopElementArgs :
        LET node == StartNode IN
        /\ call' = SearchCall("findPreviousElementAndParentByClassNames", node,
                              undefined, undefined, classNames, topElement,
                              findPreviousElementAndParentByClassNames(
                                  node, classNames, topElement))
        /\ UNCHANGED <<dom, classList, style, dataset>>

\* an element without classes, inline styles or data, which the searches do
\* not read
TreeInit ==
    /\ \E size \in 1..MaxNodes :
         \E p \in ParentMaps(size), v \in [1..size -> NodeValues] :
            dom = Dom(size, p, v)
    /\ classList = {}
    /\ style = <<>>
    /\ dataset = <<>>
    /\ call = NoCall

TreeNext ==
    \/ CallFindElementAndParent
    \/ CallFindParentElement
    \/ CallFindPreviousElementAndParent
    \/ CallFindPreviousElementAndParentByClassNames

TreeSpec == TreeInit /\ [][TreeNext]_vars

(***************************************************************************)
(* DomUtils: a boolean and an option kept in the element's class list.     *)
(* classList is the class list of the one element these calls work on.     *)
(***************************************************************************)
\* the class names the calls use: three options and one that is no option
OptionNames == {"a", "b", "c"}

ClassNameValues == OptionNames \cup {"z"}

\* the option lists: every list of at most MaxOptions option names,
\* repetitions included
OptionLists == UNION { [1..n -> OptionNames] : n \in 0..MaxOptions }

includes(options, optionValue) ==
    \E i \in 1..Len(options) : options[i] = optionValue

setBooleanByClass(list, name, booleanValue) ==
    IF booleanValue = TRUE THEN list \cup {name} ELSE list \ {name}

getBooleanByClass(list, name) == name \in list

\* the for loop of setOptionByClass, from the i-th option on
RECURSIVE setOptionByClassLoop(_, _, _, _)
setOptionByClassLoop(list, options, optionValue, i) ==
    IF i > Len(options) THEN list
    ELSE setOptionByClassLoop(
             IF optionValue = options[i]
             THEN list \cup {options[i]}
             ELSE list \ {options[i]},
             options, optionValue, i + 1)

\* a loop that adds the value's class and removes nothing
setOptionByClassAddOnly(list, options, optionValue) ==
    IF ~includes(options, optionValue)
    THEN [outcome |-> "IllegalArgumentException", classList |-> list]
    ELSE [outcome |-> "returned", classList |-> list \cup {optionValue}]

\* a loop that runs before the value is looked up in the options
setOptionByClassLoopFirst(list, options, optionValue) ==
    [outcome |-> IF includes(options, optionValue) THEN "returned"
                 ELSE "IllegalArgumentException",
     classList |-> setOptionByClassLoop(list, options, optionValue, 1)]

\* how the call ends and the class list it leaves
setOptionByClass(list, options, optionValue) ==
    IF ~includes(options, optionValue)
    THEN [outcome |-> "IllegalArgumentException", classList |-> list]
    ELSE [outcome |-> "returned",
          classList |-> setOptionByClassLoop(list, options, optionValue, 1)]

\* the first option that is in the class list, from the i-th option on
RECURSIVE getOptionByClassLoop(_, _, _)
getOptionByClassLoop(list, options, i) ==
    IF i > Len(options) THEN undefined
    ELSE IF options[i] \in list THEN options[i]
    ELSE getOptionByClassLoop(list, options, i + 1)

\* a getOptionByClass that returns the last option the class list holds
getOptionByClassLast(list, options) ==
    LET present == { i \in 1..Len(options) : options[i] \in list }
    IN  IF present = {} THEN undefined
        ELSE options[CHOOSE i \in present : \A j \in present : j <= i]

getOptionByClass(list, options) == getOptionByClassLoop(list, options, 1)

CallSetBooleanByClass ==
    \E name \in ClassNameValues, booleanValue \in BOOLEAN :
        /\ classList' = setBooleanByClass(classList, name, booleanValue)
        /\ call' = [op |-> "setBooleanByClass", name |-> name,
                    booleanValue |-> booleanValue, outcome |-> "returned"]
        /\ UNCHANGED <<dom, style, dataset>>

CallGetBooleanByClass ==
    \E name \in ClassNameValues :
        /\ call' = [op |-> "getBooleanByClass", name |-> name,
                    outcome |-> "returned",
                    result |-> getBooleanByClass(classList, name)]
        /\ UNCHANGED <<dom, classList, style, dataset>>

CallSetOptionByClass ==
    \E options \in OptionLists, optionValue \in ClassNameValues :
        LET end == setOptionByClass(classList, options, optionValue)
        IN  /\ classList' = end.classList
            /\ call' = [op |-> "setOptionByClass", options |-> options,
                        optionValue |-> optionValue, outcome |-> end.outcome]
            /\ UNCHANGED <<dom, style, dataset>>

CallGetOptionByClass ==
    \E options \in OptionLists :
        /\ call' = [op |-> "getOptionByClass", options |-> options,
                    outcome |-> "returned",
                    result |-> getOptionByClass(classList, options)]
        /\ UNCHANGED <<dom, classList, style, dataset>>

\* a document that the class calls do not read
NoDom == <<TextNode @@ [parentNode |-> Null]>>

ClassInit ==
    /\ dom = NoDom
    /\ classList \in SUBSET ClassNameValues
    /\ style = <<>>
    /\ dataset = <<>>
    /\ call = NoCall

ClassNext ==
    \/ CallSetBooleanByClass
    \/ CallGetBooleanByClass
    \/ CallSetOptionByClass
    \/ CallGetOptionByClass

ClassSpec == ClassInit /\ [][ClassNext]_vars

(***************************************************************************)
(* Strings and numbers.  A string is a sequence of characters.  A number   *)
(* that is an integer is its sign and its decimal digits, the first digit  *)
(* not 0 unless the number is 0.                                           *)
(***************************************************************************)
LowerCase ==
    {"a", "b", "c", "d", "e", "f", "g", "h", "i", "j", "k", "l", "m",
     "n", "o", "p", "q", "r", "s", "t", "u", "v", "w", "x", "y", "z"}

UpperCase ==
    {"A", "B", "C", "D", "E", "F", "G", "H", "I", "J", "K", "L", "M",
     "N", "O", "P", "Q", "R", "S", "T", "U", "V", "W", "X", "Y", "Z"}

DigitChars == <<"0", "1", "2", "3", "4", "5", "6", "7", "8", "9">>

IsDigitChar(c) == \E d \in 1..Len(DigitChars) : DigitChars[d] = c

DigitOf(c) == (CHOOSE d \in 1..Len(DigitChars) : DigitChars[d] = c) - 1

\* StringUtils.isCamelCase: a lower-case letter, then letters and digits
isCamelCase(text) ==
    /\ Len(text) > 0
    /\ text[1] \in LowerCase
    /\ \A i \in 2..Len(text) :
         text[i] \in LowerCase \cup UpperCase \/ IsDigitChar(text[i])

\* StringUtils.isDashCase: words of lower-case letters and digits, the first
\* starting with a letter, joined by single hyphens
isDashCase(text) ==
    /\ Len(text) > 0
    /\ text[1] \in LowerCase
    /\ text[Len(text)] # "-"
    /\ \A i \in 1..Len(text) :
         text[i] \in LowerCase \/ IsDigitChar(text[i]) \/ text[i] = "-"
    /\ \A i \in 1..(Len(text) - 1) : ~(text[i] = "-" /\ text[i + 1] = "-")

JsUndefined == [kind |-> "undefined"]

JsNaN == [kind |-> "NaN"]

JsString(chars) == [kind |-> "string", chars |-> chars]

JsBoolean(b) == [kind |-> "boolean", bool |-> b]

JsNumber(neg, digits) == [kind |-> "number", neg |-> neg, digits |-> digits]

Zeros(n) == [i \in 1..n |-> 0]

\* the decimal numeral of a natural number below 100
NatToChars(n) ==
    IF n < 10 THEN <<DigitChars[n + 1]>>
    ELSE <<DigitChars[(n \div 10) + 1], DigitChars[(n % 10) + 1]>>

\* Number::toString of an integer whose digits up to its last digit that is
\* not 0 are its shortest representation: its digits when there are at most
\* 21, the exponent notation otherwise
NumberToString(v) ==
    LET n == Len(v.digits)
        sign == IF v.neg THEN <<"-">> ELSE <<>>
        chars == [i \in 1..n |-> DigitChars[v.digits[i] + 1]]
        k == CHOOSE i \in 1..n :
                 /\ i = 1 \/ v.digits[i] # 0
                 /\ \A j \in (i + 1)..n : v.digits[j] = 0
    IN  IF n <= 21 THEN sign \o chars
        ELSE sign \o <<chars[1]>>
                  \o (IF k > 1 THEN <<".">> \o SubSeq(chars, 2, k) ELSE <<>>)
                  \o <<"e", "+">> \o NatToChars(n - 1)

\* the conversion to a string, as an assignment to a dataset entry or a + 'px' applies it
ToDOMString(v) ==
    CASE v.kind = "string" -> v.chars
      [] v.kind = "number" -> NumberToString(v)
      [] v.kind = "boolean" ->
            IF v.bool THEN <<"t", "r", "u", "e">> ELSE <<"f", "a", "l", "s", "e">>
      [] v.kind = "undefined" -> <<"u", "n", "d", "e", "f", "i", "n", "e", "d">>
      [] v.kind = "NaN" -> <<"N", "a", "N">>

\* String.prototype.substring(0, end)
substring0(chars, end) ==
    IF end <= 0 THEN <<>>
    ELSE IF end >= Len(chars) THEN chars
    ELSE SubSeq(chars, 1, end)

\* parseInt(chars, 10): an optional sign, then the digits up to the first
\* character that is no digit; NaN when there is no digit
parseInt(chars) ==
    LET signed == Len(chars) > 0 /\ chars[1] \in {"-", "+"}
        neg == Len(chars) > 0 /\ chars[1] = "-"
        rest == IF signed THEN SubSeq(chars, 2, Len(chars)) ELSE chars
        stops == { i \in 1..Len(rest) : ~IsDigitChar(rest[i]) }
        count == IF stops = {} THEN Len(rest)
                 ELSE (CHOOSE i \in stops : \A j \in stops : i <= j) - 1
        digits == [i \in 1..count |-> DigitOf(rest[i])]
        nonzero == { i \in 1..count : digits[i] # 0 }
        first == IF nonzero = {} THEN count
                 ELSE CHOOSE i \in nonzero : \A j \in nonzero : i <= j
    IN  IF count = 0 THEN JsNaN
        ELSE JsNumber(neg /\ nonzero # {}, SubSeq(digits, first, count))

(***************************************************************************)
(* DomUtils: typed values in the element's dataset.  dataset maps the keys *)
(* that have an entry to their strings.  Each setter gives how the call    *)
(* ends and the dataset it leaves.                                         *)
(***************************************************************************)
\* element.dataset[name] = value: the entry becomes the value as a string
datasetAssign(data, name, value) ==
    [k \in DOMAIN data \cup {name} |->
        IF k = name THEN ToDOMString(value) ELSE data[k]]

\* a setter that assigns before it looks at the name
setBooleanInDatasetAssignFirst(data, name, booleanValue) ==
    [outcome |-> IF isCamelCase(name) THEN "returned"
                 ELSE "IllegalArgumentException",
     dataset |-> datasetAssign(data, name, booleanValue)]

setStringInDataset(data, name, stringValue) ==
    IF ~isCamelCase(name)
    THEN [outcome |-> "IllegalArgumentException", dataset |-> data]
    ELSE [outcome |-> "returned",
          dataset |-> datasetAssign(data, name, stringValue)]

getStringInDataset(data, name) ==
    IF name \in DOMAIN data THEN JsString(data[name]) ELSE JsUndefined

setIntegerInDataset(data, name, integerValue) ==
    IF ~isCamelCase(name)
    THEN [outcome |-> "IllegalArgumentException", dataset |-> data]
    ELSE [outcome |-> "returned",
          dataset |-> datasetAssign(data, name, integerValue)]

\* a getter that takes a missing entry for 0
getIntegerInDatasetOrZero(data, name) ==
    IF name \in DOMAIN data THEN parseInt(data[name])
    ELSE JsNumber(FALSE, <<0>>)

getIntegerInDataset(data, name) ==
    IF name \in DOMAIN data THEN parseInt(data[name]) ELSE JsUndefined

setFloatInDataset(data, name, floatValue) ==
    IF ~isCamelCase(name)
    THEN [outcome |-> "IllegalArgumentException", dataset |-> data]
    ELSE [outcome |-> "returned",
          dataset |-> datasetAssign(data, name, floatValue)]

setBooleanInDataset(data, name, booleanValue) ==
    IF ~isCamelCase(name)
    THEN [outcome |-> "IllegalArgumentException", dataset |-> data]
    ELSE [outcome |-> "returned",
          dataset |-> datasetAssign(data, name, booleanValue)]

getBooleanInDataset(data, name) ==
    JsBoolean(name \in DOMAIN data /\ data[name] = <<"t", "r", "u", "e">>)

\* the names the dataset calls use: id and userId are camelCase; user-id,
\* UserId and the empty name are not
DatasetNames ==
    { <<"i", "d">>,
      <<"u", "s", "e", "r", "I", "d">>,
      <<"u", "s", "e", "r", "-", "i", "d">>,
      <<"U", "s", "e", "r", "I", "d">>,
      <<>> }

StringValues == { JsString(<<>>), JsString(<<"4", "2", "a">>) }

\* 0, -7, 42 and 10^21
IntegerValues ==
    { JsNumber(FALSE, <<0>>), JsNumber(TRUE, <<7>>), JsNumber(FALSE, <<4, 2>>),
      JsNumber(FALSE, <<1>> \o Zeros(21)) }

\* a float is given by the string it converts to: 1.5
FloatValues == { JsString(<<"1", ".", "5">>) }

BooleanValues == { JsBoolean(TRUE), JsBoolean(FALSE) }

DatasetSetters ==
    {"setStringInDataset", "setIntegerInDataset", "setFloatInDataset",
     "setBooleanInDataset"}

CallSetStringInDataset ==
    \E name \in DatasetNames, stringValue \in StringValues :
        LET end == setStringInDataset(dataset, name, stringValue)
        IN  /\ dataset' = end.dataset
            /\ call' = [op |-> "setStringInDataset", name |-> name, value |-> stringValue,
                        outcome |-> end.outcome]
            /\ UNCHANGED <<dom, classList, style>>

CallGetStringInDataset ==
    \E name \in DatasetNames :
        /\ call' = [op |-> "getStringInDataset", name |-> name, outcome |-> "returned",
                    result |-> getStringInDataset(dataset, name)]
        /\ UNCHANGED <<dom, classList, style, dataset>>

CallSetIntegerInDataset ==
    \E name \in DatasetNames, integerValue \in IntegerValues :
        LET end == setIntegerInDataset(dataset, name, integerValue)
        IN  /\ dataset' = end.dataset
            /\ call' = [op |-> "setIntegerInDataset", name |-> name, value |-> integerValue,
                        outcome |-> end.outcome]
            /\ UNCHANGED <<dom, classList, style>>

CallGetIntegerInDataset ==
    \E name \in DatasetNames :
        /\ call' = [op |-> "getIntegerInDataset", name |-> name, outcome |-> "returned",
                    result |-> getIntegerInDataset(dataset, name)]
        /\ UNCHANGED <<dom, classList, style, dataset>>

CallSetFloatInDataset ==
    \E name \in DatasetNames, floatValue \in FloatValues :
        LET end == setFloatInDataset(dataset, name, floatValue)
        IN  /\ dataset' = end.dataset
            /\ call' = [op |-> "setFloatInDataset", name |-> name, value |-> floatValue,
                        outcome |-> end.outcome]
            /\ UNCHANGED <<dom, classList, style>>

CallSetBooleanInDataset ==
    \E name \in DatasetNames, booleanValue \in BooleanValues :
        LET end == setBooleanInDataset(dataset, name, booleanValue)
        IN  /\ dataset' = end.dataset
            /\ call' = [op |-> "setBooleanInDataset", name |-> name, value |-> booleanValue,
                        outcome |-> end.outcome]
            /\ UNCHANGED <<dom, classList, style>>

CallGetBooleanInDataset ==
    \E name \in DatasetNames :
        /\ call' = [op |-> "getBooleanInDataset", name |-> name, outcome |-> "returned",
                    result |-> getBooleanInDataset(dataset, name)]
        /\ UNCHANGED <<dom, classList, style, dataset>>

\* an element with no data
DatasetInit ==
    /\ dom = NoDom
    /\ classList = {}
    /\ style = <<>>
    /\ dataset = <<>>
    /\ call = NoCall

DatasetNext ==
    \/ CallSetStringInDataset
    \/ CallGetStringInDataset
    \/ CallSetIntegerInDataset
    \/ CallGetIntegerInDataset
    \/ CallSetFloatInDataset
    \/ CallSetBooleanInDataset
    \/ CallGetBooleanInDataset

DatasetSpec == DatasetInit /\ [][DatasetNext]_vars

(***************************************************************************)
(* ComputeSize and the style calls of DomUtils.  style is the element's    *)
(* inline style: the string under each name, the empty string where        *)
(* nothing is set.  Each call gives how it ends, the inline style it       *)
(* leaves and what it returns.                                             *)
(***************************************************************************)
px == <<"p", "x">>

\* the names the style calls use: margin-left and left are dash-case;
\* marginLeft and Margin-Left are not
StyleNames ==
    { <<"m", "a", "r", "g", "i", "n", "-", "l", "e", "f", "t">>,
      <<"l", "e", "f", "t">>,
      <<"m", "a", "r", "g", "i", "n", "L", "e", "f", "t">>,
      <<"M", "a", "r", "g", "i", "n", "-", "L", "e", "f", "t">> }

\* the value a property has when no inline style sets it
InitialValue(name) ==
    IF name = <<"l", "e", "f", "t">> THEN <<"a", "u", "t", "o">>
    ELSE <<"0">> \o px

\* this.computeStyle.getPropertyValue(name): the inline value when there is
\* one, the property's initial value otherwise
getPropertyValue(st, name) ==
    IF st[name] # <<>> THEN st[name] ELSE InitialValue(name)

isEmptyString(value) == value.kind = "string" /\ value.chars = <<>>

getValue(st, name) ==
    IF ~isDashCase(name)
    THEN [outcome |-> "IllegalArgumentException", style |-> st,
          result |-> JsUndefined]
    ELSE [outcome |-> "returned", style |-> st,
          result |-> JsString(getPropertyValue(st, name))]

\* a setValue that takes any name
setValueAnyName(st, name, value) ==
    [outcome |-> "returned",
     style |-> [st EXCEPT ![name] = IF value = JsUndefined THEN <<>>
                                    ELSE ToDOMString(value)],
     result |-> JsUndefined]

setValue(st, name, value) ==
    IF ~isDashCase(name)
    THEN [outcome |-> "IllegalArgumentException", style |-> st,
          result |-> JsUndefined]
    ELSE [outcome |-> "returned",
          style |-> [st EXCEPT ![name] = IF value = JsUndefined THEN <<>>
                                         ELSE ToDOMString(value)],
          result |-> JsUndefined]

getPixelValue(st, name) ==
    LET pixel == getValue(st, name)
    IN  IF pixel.outcome # "returned" THEN pixel
        ELSE [pixel EXCEPT !.result =
                 parseInt(substring0(pixel.result.chars,
                                     Len(pixel.result.chars) - 2))]

\* a setPixelValue that writes the number without its unit
setPixelValueNoUnit(st, name, value) ==
    IF value = JsUndefined \/ isEmptyString(value)
    THEN setValue(st, name, JsString(<<>>))
    ELSE setValue(st, name, JsString(ToDOMString(value)))

setPixelValue(st, name, value) ==
    IF value = JsUndefined \/ isEmptyString(value)
    THEN setValue(st, name, JsString(<<>>))
    ELSE setValue(st, name, JsString(ToDOMString(value) \o px))

\* a setPixelValueInStyle that looks at the name as setValue does
setPixelValueInStyleDashCaseOnly(st, name, pixelValue) ==
    setPixelValue(st, name, pixelValue)

setPixelValueInStyle(st, name, pixelValue) ==
    [outcome |-> "returned",
     style |-> [st EXCEPT ![name] =
                   IF pixelValue = JsUndefined \/ isEmptyString(pixelValue)
                   THEN <<>>
                   ELSE ToDOMString(pixelValue) \o px],
     result |-> JsUndefined]

getPixelValueInStyle(st, name) ==
    LET value == st[name]
    IN  [outcome |-> "returned", style |-> st,
         result |-> IF value = <<>> THEN JsUndefined
                    ELSE parseInt(substring0(value, Len(value) - 2))]

\* undefined, '', '5px' and 'auto'
StyleValues ==
    { JsUndefined, JsString(<<>>), JsString(<<"5">> \o px),
      JsString(<<"a", "u", "t", "o">>) }

\* undefined, '', 0 and 12
PixelValues ==
    { JsUndefined, JsString(<<>>), JsNumber(FALSE, <<0>>),
      JsNumber(FALSE, <<1, 2>>) }

CallGetValue ==
    \E name \in StyleNames :
        LET end == getValue(style, name)
        IN  /\ style' = end.style
            /\ call' = [op |-> "getValue", name |-> name,
                        outcome |-> end.outcome, result |-> end.result]
            /\ UNCHANGED <<dom, classList, dataset>>

CallSetValue ==
    \E name \in StyleNames, value \in StyleValues :
        LET end == setValue(style, name, value)
        IN  /\ style' = end.style
            /\ call' = [op |-> "setValue", name |-> name, value |-> value,
                        outcome |-> end.outcome, result |-> end.result]
            /\ UNCHANGED <<dom, classList, dataset>>

CallGetPixelValue ==
    \E name \in StyleNames :
        LET end == getPixelValue(style, name)
        IN  /\ style' = end.style
            /\ call' = [op |-> "getPixelValue", name |-> name,
                        outcome |-> end.outcome, result |-> end.result]
            /\ UNCHANGED <<dom, classList, dataset>>

CallSetPixelValue ==
    \E name \in StyleNames, value \in PixelValues :
        LET end == setPixelValue(style, name, value)
        IN  /\ style' = end.style
            /\ call' = [op |-> "setPixelValue", name |-> name, value |-> value,
                        outcome |-> end.outcome, result |-> end.result]
            /\ UNCHANGED <<dom, classList, dataset>>

CallSetPixelValueInStyle ==
    \E name \in StyleNames, pixelValue \in PixelValues :
        LET end == setPixelValueInStyle(style, name, pixelValue)
        IN  /\ style' = end.style
            /\ call' = [op |-> "setPixelValueInStyle", name |-> name,
                        value |-> pixelValue, outcome |-> end.outcome,
                        result |-> end.result]
            /\ UNCHANGED <<dom, classList, dataset>>

CallGetPixelValueInStyle ==
    \E name \in StyleNames :
        LET end == getPixelValueInStyle(style, name)
        IN  /\ style' = end.style
            /\ call' = [op |-> "getPixelValueInStyle", name |-> name,
                        outcome |-> end.outcome, result |-> end.result]
            /\ UNCHANGED <<dom, classList, dataset>>

\* an element with no inline style
StyleInit ==
    /\ dom = NoDom
    /\ classList = {}
    /\ style = [name \in StyleNames |-> <<>>]
    /\ dataset = <<>>
    /\ call = NoCall

StyleNext ==
    \/ CallGetValue
    \/ CallSetValue
    \/ CallGetPixelValue
    \/ CallSetPixelValue
    \/ CallSetPixelValueInStyle
    \/ CallGetPixelValueInStyle

StyleSpec == StyleInit /\ [][StyleNext]_vars

(***************************************************************************)
(* What the tree searches are to compute, stated on the tree itself        *)
(***************************************************************************)
SearchOps ==
    {"findElementAndParent", "findParentElement",
     "findPreviousElementAndParent", "findPreviousElementAndParentByClassNames"}

Min(S) == CHOOSE i \in S : \A j \in S : i <= j

\* n, its parent, its parent's parent, ... up to the root
RECURSIVE AncestorsOrSelf(_)
AncestorsOrSelf(n) ==
    IF n = Null THEN <<>> ELSE <<n>> \o AncestorsOrSelf(dom[n].parentNode)

ProperAncestors(n) ==
    { AncestorsOrSelf(n)[i] : i \in 2..Len(AncestorsOrSelf(n)) }

\* the positions after n when stepping to the previous sibling where there
\* is one and to the parent otherwise, until there is neither
RECURSIVE BackwardFrom(_)
BackwardFrom(n) ==
    LET back == IF previousSibling(n) # Null THEN previousSibling(n)
                ELSE dom[n].parentNode
    IN  IF back = Null THEN <<>> ELSE <<back>> \o BackwardFrom(back)

IsBoundary(n, topElement) == n = topElement \/ dom[n].tagName = "BODY"

\* the predicate of a class name and a tag name, each given or not
Satisfies(n, className, tagName_) ==
    /\ dom[n].nodeType = ELEMENT_NODE
    /\ className # undefined \/ tagName_ # undefined
    /\ className # undefined => className \in dom[n].classList
    /\ tagName_ # undefined => dom[n].tagName = tagName_

\* the predicate of a list of class names
SatisfiesAll(n, classNames) ==
    /\ dom[n].nodeType = ELEMENT_NODE
    /\ { classNames[i] : i \in 1..Len(classNames) } \subseteq dom[n].classList

\* C1: no tree search returns the stop node or a node tagged BODY
C1_NeverReturnsBoundary ==
    call.op \in SearchOps =>
        ~(call.result \in Nodes /\ IsBoundary(call.result, call.topElement))

\* C2: findElementAndParent returns the first node of the chain of the start
\* node and its ancestors that satisfies the predicate and lies before the
\* first node of the chain that is the stop node or tagged BODY (the start
\* node itself when it qualifies), and undefined when there is none
C2_FindElementAndParent ==
    call.op = "findElementAndParent" =>
        LET chain == AncestorsOrSelf(call.node)
            inside == { i \in 1..Len(chain) :
                          \A j \in 1..i : ~IsBoundary(chain[j], call.topElement) }
            hits == { i \in inside :
                        Satisfies(chain[i], call.className, call.tagName) }
        IN  IF hits = {} THEN call.result = Undefined
            ELSE call.result = chain[Min(hits)]

\* C2's case: the search passed the start node and found a proper ancestor
\* below a stop node
C2_Witness ==
    /\ call.op = "findElementAndParent"
    /\ call.topElement \in Nodes
    /\ call.result \in ProperAncestors(call.node)

\* C3: findParentElement never returns the start node; it returns the
\* nearest proper ancestor that satisfies the predicate and lies before the
\* boundary, and undefined when there is none
C3_FindParentElement ==
    call.op = "findParentElement" =>
        LET chain == AncestorsOrSelf(call.node)
            inside == { i \in 1..Len(chain) :
                          \A j \in 1..i : ~IsBoundary(chain[j], call.topElement) }
            hits == { i \in inside \ {1} :
                        Satisfies(chain[i], call.className, call.tagName) }
        IN  /\ call.result # call.node
            /\ IF hits = {} THEN call.result = Undefined
               ELSE call.result = chain[Min(hits)]

\* C4: a previous-sibling search returns the first position that satisfies
\* its predicate (every name of classNames, for the ByClassNames variant) in
\* the sequence of steps back from the start node, as far as the walk goes;
\* never the start node, and never a child of a preceding sibling
C4_FindPrevious ==
    call.op \in {"findPreviousElementAndParent",
                 "findPreviousElementAndParentByClassNames"} =>
        LET walk == BackwardFrom(call.node)
            Hit(n) == IF call.op = "findPreviousElementAndParent"
                      THEN Satisfies(n, call.className, call.tagName)
                      ELSE SatisfiesAll(n, call.classNames)
            hits == { i \in 1..Len(walk) : Hit(walk[i]) }
            \* the positions the walk gets to: it stops after a boundary
            reached == { i \in 1..Len(walk) :
                           /\ ~IsBoundary(call.node, call.topElement)
                           /\ \A j \in 1..(i - 1) :
                                 ~IsBoundary(walk[j], call.topElement) }
        IN  /\ call.result # call.node
            /\ call.result \in Nodes =>
                 /\ hits # {}
                 /\ call.result = walk[Min(hits)]
                 /\ dom[call.result].parentNode
                        \in {Null} \cup ProperAncestors(call.node)
            /\ (hits # {} /\ Min(hits) \in reached) =>
                 call.result = walk[Min(hits)]

\* C4's case: the ByClassNames search passed a preceding sibling that has
\* only one of the two names and did not look at that sibling's child, which
\* has both
C4_Witness ==
    /\ call.op = "findPreviousElementAndParentByClassNames"
    /\ call.classNames = <<"x", "y">>
    /\ call.result \in Nodes
    /\ \E sibling \in Nodes, child \in Nodes :
         /\ sibling = previousSibling(call.node)
         /\ dom[sibling].classList = {"x"}
         /\ dom[child].parentNode = sibling
         /\ SatisfiesAll(child, call.classNames)

\* C12: on every tree, a detached one with no BODY and no stop node
\* included, findElementAndParent, findParentElement and
\* findPreviousElementAndParent called with neither a class name nor a tag
\* name return undefined: none returns a node and none raises an error
C12_NoPredicateSilent ==
    (/\ call.op \in {"findElementAndParent", "findParentElement",
                     "findPreviousElementAndParent"}
     /\ call.className = undefined
     /\ call.tagName = undefined) => call.result = Undefined

\* C14: a node that findElementAndParent, findParentElement or
\* findPreviousElementAndParent returns is an element, and it has the class
\* name and the tag name when both are given, the class name when only the
\* class name is given, the tag name when only the tag name is given; a node
\* that is no element is never returned
C14_ReturnedNodeMatches ==
    (/\ call.op \in {"findElementAndParent", "findParentElement",
                     "findPreviousElementAndParent"}
     /\ call.result \in Nodes) =>
        /\ dom[call.result].nodeType = ELEMENT_NODE
        /\ IF call.className # undefined /\ call.tagName # undefined
           THEN /\ call.className \in dom[call.result].classList
                /\ dom[call.result].tagName = call.tagName
           ELSE IF call.className # undefined
           THEN call.className \in dom[call.result].classList
           ELSE IF call.tagName # undefined
           THEN dom[call.result].tagName = call.tagName
           ELSE FALSE

\* C14's case: with a class name and a tag name given, the search went past
\* a text node and past an element of that tag without the class, and
\* returned an element further back
C14_Witness ==
    /\ call.op = "findPreviousElementAndParent"
    /\ call.className = "y"
    /\ call.tagName = "DIV"
    /\ call.result \in Nodes
    /\ LET walk == BackwardFrom(call.node)
       IN  \E i, j, k \in 1..Len(walk) :
              /\ i < k /\ j < k
              /\ dom[walk[i]].nodeType = TEXT_NODE
              /\ dom[walk[j]] = [dom[walk[j]] EXCEPT !.tagName = "DIV",
                                                     !.classList = {"x"}]
              /\ walk[k] = call.result

(***************************************************************************)
(* What setOptionByClass is to do                                          *)
(***************************************************************************)
Members(options) == { options[i] : i \in 1..Len(options) }

\* C5: after setOptionByClass with a value that is one of the options, the
\* class list holds the value and no other of the options
C5_SetOptionExclusive ==
    (call.op = "setOptionByClass" /\ call.optionValue \in Members(call.options)) =>
        /\ call.outcome = "returned"
        /\ call.optionValue \in classList
        /\ \A o \in Members(call.options) \ {call.optionValue} : o \notin classList

\* C5's case: a call whose list names the value and two more options that
\* were both in the class list before it
C5_Witness ==
    /\ call.op = "setOptionByClass"
    /\ call.outcome = "returned"
    /\ call.options = <<"a", "b", "c">>
    /\ call.optionValue = "b"
    /\ classList = {"b", "z"}

\* C6: setOptionByClass with a value that is none of the options raises
\* IllegalArgumentException and leaves the class list as it was
C6_SetOptionRejects ==
    [][(call'.op = "setOptionByClass"
        /\ call'.optionValue \notin Members(call'.options)) =>
           /\ call'.outcome = "IllegalArgumentException"
           /\ classList' = classList]_vars

\* C6's case: a rejected call on an element that has classes of the options
C6_Witness ==
    /\ call.op = "setOptionByClass"
    /\ call.outcome = "IllegalArgumentException"
    /\ call.options = <<"a", "b">>
    /\ call.optionValue = "z"
    /\ classList = {"a", "b"}

\* C13: getOptionByClass returns the first entry of options, in the order
\* of the list, that the class list holds, and undefined when it holds
\* none; called right after a setOptionByClass of the same options that
\* returned, it returns the value that call set
C13_GetOptionFirstPresent ==
    [][call'.op = "getOptionByClass" =>
           LET options == call'.options
               present == { i \in 1..Len(options) : options[i] \in classList }
           IN  /\ classList' = classList
               /\ IF present = {} THEN call'.result = undefined
                  ELSE call'.result = options[Min(present)]
               /\ (/\ call.op = "setOptionByClass"
                   /\ call.outcome = "returned"
                   /\ call.options = options) =>
                      call'.result = call.optionValue]_vars

\* C13's case: the class list holds the second and the third option at
\* once, and not the first
C13_Witness ==
    /\ call.op = "getOptionByClass"
    /\ call.options = <<"a", "b", "c">>
    /\ classList = {"b", "c", "z"}
    /\ call.result = "b"

(***************************************************************************)
(* What the style calls are to do                                          *)
(***************************************************************************)
ComputeSizeOps == {"getValue", "setValue", "getPixelValue", "setPixelValue"}

C8_SetPixelValueInStyleRejects ==
    [][(call'.op = "setPixelValueInStyle" /\ ~isDashCase(call'.name)) =>
           /\ call'.outcome = "IllegalArgumentException"
           /\ style' = style]_vars

\* C8, amended: setPixelValueInStyle does not look at the name: with a name
\* that is not dash-case it returns, having set the inline style of that
\* name to the pixel value followed by px, or to the empty string for
\* undefined and for the empty string
C8_SetPixelValueInStyleWrites ==
    [][(call'.op = "setPixelValueInStyle" /\ ~isDashCase(call'.name)) =>
           /\ call'.outcome = "returned"
           /\ style' = [style EXCEPT ![call'.name] =
                 IF call'.value = JsUndefined \/ call'.value = JsString(<<>>)
                 THEN <<>>
                 ELSE NumberToString(call'.value) \o px]]_vars

\* C8's case: setPixelValueInStyle wrote 12px under the name marginLeft
C8_Witness ==
    /\ call.op = "setPixelValueInStyle"
    /\ call.name = <<"m", "a", "r", "g", "i", "n", "L", "e", "f", "t">>
    /\ call.value = JsNumber(FALSE, <<1, 2>>)
    /\ call.outcome = "returned"
    /\ style[call.name] = <<"1", "2", "p", "x">>

\* the decimal numeral of a non-negative integer given by its digits
Decimal(digits) == [i \in 1..Len(digits) |-> DigitChars[digits[i] + 1]]

\* C11: for a dash-case name n, setPixelValue(n, v) with a non-negative
\* integer v leaves the inline style of n the numeral of v followed by px,
\* setPixelValue(n, undefined) and setPixelValue(n, '') leave it the empty
\* string, and the inline style of every other name is as it was
C11_SetPixelValueWrites ==
    [][(call'.op = "setPixelValue" /\ isDashCase(call'.name)) =>
           /\ call'.outcome = "returned"
           /\ call'.value.kind = "number" =>
                  style'[call'.name] = Decimal(call'.value.digits) \o px
           /\ call'.value \in {JsUndefined, JsString(<<>>)} =>
                  style'[call'.name] = <<>>
           /\ \A other \in StyleNames \ {call'.name} :
                  style'[other] = style[other]]_vars

\* C11's case: setPixelValue('margin-left', 12) wrote 12px on an element
\* whose left is 5px and stays so
C11_Witness ==
    /\ call.op = "setPixelValue"
    /\ call.name = <<"m", "a", "r", "g", "i", "n", "-", "l", "e", "f", "t">>
    /\ call.value = JsNumber(FALSE, <<1, 2>>)
    /\ call.outcome = "returned"
    /\ style[call.name] = <<"1", "2", "p", "x">>
    /\ style[<<"l", "e", "f", "t">>] = <<"5">> \o px

(***************************************************************************)
(* What the dataset accessors are to do                                    *)
(***************************************************************************)
\* C9: each dataset setter raises IllegalArgumentException for a name that
\* is not camelCase and then leaves the dataset as it was
C9_DatasetSettersReject ==
    [][(call'.op \in DatasetSetters /\ ~isCamelCase(call'.name)) =>
           /\ call'.outcome = "IllegalArgumentException"
           /\ dataset' = dataset]_vars

\* C9's case: setFloatInDataset rejected the name user-id on an element
\* that has entries
C9_Witness ==
    /\ call.op = "setFloatInDataset"
    /\ call.name = <<"u", "s", "e", "r", "-", "i", "d">>
    /\ call.outcome = "IllegalArgumentException"
    /\ DOMAIN dataset = { <<"i", "d">>, <<"u", "s", "e", "r", "I", "d">> }

\* a getIntegerInDataset call that follows a setIntegerInDataset call of
\* the same name that returned
ReadsBack ==
    /\ call.op = "setIntegerInDataset"
    /\ call.outcome = "returned"
    /\ call'.op = "getIntegerInDataset"
    /\ call'.name = call.name

\* C10 as stated: setIntegerInDataset(element, k, i) followed by
\* getIntegerInDataset(element, k) returns i, for every integer i; on a key
\* without an entry getIntegerInDataset returns undefined
C10_IntegerRoundTrip ==
    [][/\ ReadsBack => call'.result = call.value
       /\ (call'.op = "getIntegerInDataset" /\ call'.name \notin DOMAIN dataset')
             => call'.result = JsUndefined]_vars

\* C10 on the integers that String writes in digits: the same for every
\* integer i of at most 21 digits, that is of magnitude below 10^21
C10_IntegerRoundTripBelow1e21 ==
    [][/\ (ReadsBack /\ Len(call.value.digits) <= 21)
             => call'.result = call.value
       /\ (call'.op = "getIntegerInDataset" /\ call'.name \notin DOMAIN dataset')
             => call'.result = JsUndefined]_vars

\* C10's case: getIntegerInDataset returned -7, which only a
\* setIntegerInDataset of -7 makes it do, while another key has no entry
C10_Witness ==
    /\ call.op = "getIntegerInDataset"
    /\ call.name = <<"u", "s", "e", "r", "I", "d">>
    /\ call.result = JsNumber(TRUE, <<7>>)
    /\ <<"i", "d">> \notin DOMAIN dataset

====
